---------------------------- MODULE Spec2Model ----------------------------
(***************************************************************************)
(* A model of src/ipsa_sched.c: the registrar ipsa_sched, the four         *)
(* periodic tasks vPeriodicTask1..4 and aperiodicTask1, running on a       *)
(* preemptive fixed-priority kernel (FreeRTOS).  The kernel is not part of *)
(* src/: its tick, its delayed list and its dispatcher are modelled from   *)
(* section 5 and 6 of spec.md.                                             *)
(*                                                                         *)
(* Time is the kernel tick count.  A task's statements take no ticks by    *)
(* themselves; execution time is the ticks that the tick interrupt lets    *)
(* pass while the task is the running one.                                 *)
(***************************************************************************)
EXTENDS Integers, Sequences, FiniteSets, TLC

(* ------------------------------ bounds -------------------------------- *)

\* the whole program: the tick counter stops here
MaxTicks == 380
\* the whole program: ticks that may pass, in one run, while a task executes
MaxBusyTicks == 1
\* the started system alone: the same two bounds
MaxPreemptTicks == 172
MaxPreemptBusy == 4
\* the started system with long workloads: the same two bounds
MaxOverrunTicks == 56
MaxOverrunBusy == 52
\* xTaskCreate calls that may fail in one run
MaxFail == 1
\* generalised search: longest array, largest element
MaxLen == 3
MaxVal == 4

(* ----------------------- constants of the program --------------------- *)

tskIDLE_PRIORITY == 0
portTICK_PERIOD_MS == 1
mainQUEUE_LENGTH == 2

TASK1_PERIOD_MS == 166 \div portTICK_PERIOD_MS
TASK2_PERIOD_MS == 170 \div portTICK_PERIOD_MS
TASK3_PERIOD_MS == 186 \div portTICK_PERIOD_MS
TASK4_PERIOD_MS == 166 \div portTICK_PERIOD_MS
APERIODIC_TASK_DELAY_MS == 50 \div portTICK_PERIOD_MS

TASK1_PRIORITY == tskIDLE_PRIORITY + 1
TASK2_PRIORITY == tskIDLE_PRIORITY + 2
TASK3_PRIORITY == tskIDLE_PRIORITY + 3
TASK4_PRIORITY_Same3 == tskIDLE_PRIORITY + 3
TASK4_PRIORITY_Low == tskIDLE_PRIORITY
TASK4_PRIORITY == tskIDLE_PRIORITY + 4
APERIODIC_TASK_PRIORITY_Low == tskIDLE_PRIORITY
APERIODIC_TASK_PRIORITY == tskIDLE_PRIORITY + 5

\* the tasks, by the names ipsa_sched gives them, in creation order
TaskOrder == <<"TX1", "TX2", "TX3", "TX4", "Aperiodic">>
Tasks == {TaskOrder[i] : i \in 1..Len(TaskOrder)}
Periodic == {"TX1", "TX2", "TX3", "TX4"}
IDLE == "IDLE"
NULL == "NULL"

\* the priority argument of each xTaskCreate call
CreatePriority(t) ==
    CASE t = "TX1" -> TASK1_PRIORITY
      [] t = "TX2" -> TASK2_PRIORITY
      [] t = "TX3" -> TASK3_PRIORITY
      [] t = "TX4" -> TASK4_PRIORITY
      [] t = "Aperiodic" -> APERIODIC_TASK_PRIORITY

DelayTicks_Copy1(t) ==
    CASE t = "TX1" -> TASK1_PERIOD_MS
      [] t = "TX2" -> TASK1_PERIOD_MS
      [] t = "TX3" -> TASK3_PERIOD_MS
      [] t = "TX4" -> TASK4_PERIOD_MS
      [] t = "Aperiodic" -> APERIODIC_TASK_DELAY_MS

\* the argument of each task's vTaskDelay call
DelayTicks(t) ==
    CASE t = "TX1" -> TASK1_PERIOD_MS
      [] t = "TX2" -> TASK2_PERIOD_MS
      [] t = "TX3" -> TASK3_PERIOD_MS
      [] t = "TX4" -> TASK4_PERIOD_MS
      [] t = "Aperiodic" -> APERIODIC_TASK_DELAY_MS

Entry_PrintFirst(t) ==
    CASE t = "TX1" -> "print"
      [] t = "TX2" -> "init"
      [] t = "TX3" -> "init"
      [] t = "TX4" -> "init"
      [] t = "Aperiodic" -> "print"

Entry_DelayFirst(t) ==
    CASE t = "TX1" -> "delay"
      [] t = "TX2" -> "init"
      [] t = "TX3" -> "init"
      [] t = "TX4" -> "init"
      [] t = "Aperiodic" -> "delay"

\* the first statement of each task function
Entry(t) ==
    CASE t = "TX1" -> "print"
      [] t = "TX2" -> "init"
      [] t = "TX3" -> "init"
      [] t = "TX4" -> "init"
      [] t = "Aperiodic" -> "delay"

AfterDelay_Reinit(t) ==
    CASE t = "TX1" -> "print"
      [] t = "TX2" -> "calc"
      [] t = "TX3" -> "mul"
      [] t = "TX4" -> "init"
      [] t = "Aperiodic" -> "print"

\* the statement a task resumes at when its vTaskDelay call returns
AfterDelay(t) ==
    CASE t = "TX1" -> "print"
      [] t = "TX2" -> "calc"
      [] t = "TX3" -> "mul"
      [] t = "TX4" -> "while"
      [] t = "Aperiodic" -> "print"

(* --------------- 64-bit integers, as little-endian bytes --------------- *)
(* TLC's integers are 32 bits wide, so a C long (64 bits, LP64) is a       *)
(* sequence of 8 bytes in two's complement, least significant first.       *)

Zeros(w) == [i \in 1..w |-> 0]

RECURSIVE ScaleAddFrom(_, _, _, _)
\* bytes i.. of s*k + c, the width of s kept
ScaleAddFrom(s, k, c, i) ==
    IF i > Len(s) THEN <<>>
    ELSE LET v == s[i] * k + c
         IN  <<v % 256>> \o ScaleAddFrom(s, k, v \div 256, i + 1)

RECURSIVE FromDecimalAcc(_, _)
FromDecimalAcc(ds, acc) ==
    IF ds = <<>> THEN acc
    ELSE FromDecimalAcc(Tail(ds), ScaleAddFrom(acc, 10, Head(ds), 1))

\* the w-byte value of a decimal literal given by its digits
FromDecimal(ds, w) == FromDecimalAcc(ds, Zeros(w))

IsNeg(p) == p[Len(p)] >= 128

\* two's complement negation: invert every byte and add one
Negate(p) == ScaleAddFrom([i \in 1..Len(p) |-> 255 - p[i]], 1, 1, 1)

Magnitude(p) == IF IsNeg(p) THEN Negate(p) ELSE p

\* a 64-bit pattern read as the signed integer it stands for
Int64Value(p) == [neg |-> IsNeg(p), mag |-> Magnitude(p)]

RECURSIVE ColSum(_, _, _, _)
\* the sum of a[i]*b[j] over i + j = k + 1, from i on
ColSum(a, b, k, i) ==
    IF i > Len(a) THEN 0
    ELSE (IF (k + 1 - i) \in 1..Len(b) THEN a[i] * b[k + 1 - i] ELSE 0)
         + ColSum(a, b, k, i + 1)

RECURSIVE MulFrom(_, _, _, _)
MulFrom(a, b, k, c) ==
    IF k > Len(a) + Len(b) THEN <<>>
    ELSE LET v == ColSum(a, b, k, 1) + c
         IN  <<v % 256>> \o MulFrom(a, b, k + 1, v \div 256)

\* the exact product of two unsigned byte sequences, Len(a)+Len(b) bytes
MulWide(a, b) == MulFrom(a, b, 1, 0)

\* whether a magnitude (with the sign of the product) is an int64
FitsInt64(m, neg) ==
    /\ \A i \in 9..Len(m) : m[i] = 0
    /\ \/ m[8] < 128
       \/ neg /\ m[8] = 128 /\ \A i \in 1..7 : m[i] = 0

\* the mathematical product of two longs is outside the range of long
MulOverflows(a, b) ==
    ~FitsInt64(MulWide(Magnitude(a), Magnitude(b)), IsNeg(a) # IsNeg(b))

\* the low 64 bits of the product: what a wrapping multiply (imul) leaves
MulWrap(a, b) == SubSeq(MulWide(a, b), 1, 8)

\* num1 * num2 on longs.  Signed overflow is undefined behaviour: a build
\* either wraps (the usual code) or traps (-ftrapv, a trapping sanitizer).
MulOutcomes(a, b) ==
    IF MulOverflows(a, b)
    THEN {[trap |-> FALSE, value |-> MulWrap(a, b)],
          [trap |-> TRUE, value |-> Zeros(8)]}
    ELSE {[trap |-> FALSE, value |-> MulWrap(a, b)]}

(* ------------------------------- state -------------------------------- *)

VARIABLES
    pcReg,              \* where ipsa_sched is
    xQueue,             \* the global queue handle
    uxLength,           \* the queue's capacity in items (0: no queue)
    uxMessagesWaiting,  \* items the queue holds
    failures,           \* xTaskCreate calls that have failed
    uxPriority,         \* each created task's priority
    xSchedulerRunning,  \* vTaskStartScheduler has started the kernel
    xTickCount,         \* the kernel's tick counter
    eState,             \* per task: "none" (not created), "ready", "blocked"
    xTimeToWake,        \* per blocked task: the tick that ends its delay
    pxCurrentTCB,       \* the task that is executing
    busyTicks,          \* ticks that passed while a task was executing
    aborted,            \* the process was killed by a trap
    pc,                 \* per task: the statement it is at
    fahrenheit, celsius,                        \* locals of vPeriodicTask2
    num1, num2, result,                         \* locals of vPeriodicTask3
    list, element_to_find, low, high, mid, found, \* locals of vPeriodicTask4
    probes,             \* comparisons of list[mid] made since the last report
    out,                \* per task: the last line it printed ("" if none)
    emits,              \* per task: lines printed
    emitAt,             \* per task: tick of the last line printed
    nDelay,             \* per task: vTaskDelay calls made
    delayArg,           \* per task: argument of the last vTaskDelay call
    delayAt,            \* per task: tick of the last vTaskDelay call
    relCount,           \* per task: times it became ready (creation included)
    relAt,              \* per task: tick of its last release
    prevRelAt,          \* per task: tick of the release before
    prevSpent,          \* per task: ticks from the release before to its delay call
    firstRunAt          \* per task: tick at which it first executed (-1: never)

queueVars == <<uxLength, uxMessagesWaiting>>
regVars == <<pcReg, xQueue, failures, queueVars>>
kernVars == <<uxPriority, xSchedulerRunning, xTickCount, eState, xTimeToWake,
              pxCurrentTCB, busyTicks, relCount, relAt, prevRelAt, prevSpent,
              firstRunAt>>
delayVars == <<nDelay, delayArg, delayAt>>
outVars == <<out, emits, emitAt>>
t2Vars == <<fahrenheit, celsius>>
t3Vars == <<num1, num2, result>>
t4Vars == <<list, element_to_find, low, high, mid, found, probes>>
vars == <<regVars, kernVars, delayVars, outVars, aborted, pc, t2Vars, t3Vars, t4Vars>>

\* a float, held as thousandths
FixedPoint(x) == x * 1000

created == {t \in Tasks : eState[t] # "none"}

\* The state when ipsa_sched is entered, the array of vPeriodicTask4 and its
\* target given.  A task's locals do not exist before the task first runs:
\* their values here are placeholders that its "init" step overwrites.
InitWith(lst, target) ==
    /\ pcReg = "xQueueCreate"
    /\ xQueue = NULL
    /\ uxLength = 0 /\ uxMessagesWaiting = 0
    /\ failures = 0
    /\ uxPriority = [t \in Tasks |-> 0]
    /\ xSchedulerRunning = FALSE
    /\ xTickCount = 0
    /\ eState = [t \in Tasks |-> "none"]
    /\ xTimeToWake = [t \in Tasks |-> 0]
    /\ pxCurrentTCB = NULL
    /\ busyTicks = 0
    /\ aborted = FALSE
    /\ pc = [t \in Tasks |-> Entry(t)]
    /\ fahrenheit = 0 /\ celsius = 0
    /\ num1 = Zeros(8) /\ num2 = Zeros(8) /\ result = Zeros(8)
    /\ list = lst /\ element_to_find = target
    /\ low = 0 /\ high = 0 /\ mid = 0 /\ found = 0
    /\ probes = 0
    /\ out = [t \in Tasks |-> ""]
    /\ emits = [t \in Tasks |-> 0]
    /\ emitAt = [t \in Tasks |-> 0]
    /\ nDelay = [t \in Tasks |-> 0]
    /\ delayArg = [t \in Tasks |-> 0]
    /\ delayAt = [t \in Tasks |-> 0]
    /\ relCount = [t \in Tasks |-> 0]
    /\ relAt = [t \in Tasks |-> 0]
    /\ prevRelAt = [t \in Tasks |-> 0]
    /\ prevSpent = [t \in Tasks |-> 0]
    /\ firstRunAt = [t \in Tasks |-> -1]

\* int list[50] = {1, ..., 50}; int element_to_find = 25
Init == InitWith([i \in 1..50 |-> i], 25)

(* ------------------------------ kernel -------------------------------- *)

\* the ready task of highest priority, the idle task when none is ready
HighestReady(es, prio) ==
    IF \A t \in Tasks : es[t] # "ready" THEN IDLE
    ELSE CHOOSE t \in Tasks :
            /\ es[t] = "ready"
            /\ \A u \in Tasks : es[u] = "ready" => prio[u] <= prio[t]

\* firstRunAt once task cur is switched in at tick now
MarkRun(cur, now) ==
    IF cur \in Tasks /\ firstRunAt[cur] = -1
    THEN [firstRunAt EXCEPT ![cur] = now]
    ELSE firstRunAt

Running(t) == xSchedulerRunning /\ ~aborted /\ pxCurrentTCB = t

\* The tick interrupt: the count advances, every task whose delay ends at
\* the new count becomes ready, and the highest-priority ready task is
\* switched in (preemption).  The count stops at tickLimit, and at most
\* busyLimit ticks pass while a task other than the idle task executes.
Tick(tickLimit, busyLimit) ==
    /\ xSchedulerRunning /\ ~aborted
    /\ xTickCount < tickLimit
    /\ pxCurrentTCB = IDLE \/ busyTicks < busyLimit
    /\ LET now == xTickCount + 1
           woken == {t \in Tasks : eState[t] = "blocked" /\ xTimeToWake[t] = now}
           es == [t \in Tasks |-> IF t \in woken THEN "ready" ELSE eState[t]]
           cur == HighestReady(es, uxPriority)
       IN  /\ xTickCount' = now
           /\ eState' = es
           /\ pxCurrentTCB' = cur
           /\ firstRunAt' = MarkRun(cur, now)
           /\ relCount' = [t \in Tasks |-> IF t \in woken THEN relCount[t] + 1 ELSE relCount[t]]
           /\ prevRelAt' = [t \in Tasks |-> IF t \in woken THEN relAt[t] ELSE prevRelAt[t]]
           /\ prevSpent' = [t \in Tasks |-> IF t \in woken THEN delayAt[t] - relAt[t] ELSE prevSpent[t]]
           /\ relAt' = [t \in Tasks |-> IF t \in woken THEN now ELSE relAt[t]]
    /\ busyTicks' = IF pxCurrentTCB = IDLE THEN busyTicks ELSE busyTicks + 1
    /\ UNCHANGED <<uxPriority, xSchedulerRunning, xTimeToWake>>
    /\ UNCHANGED <<regVars, delayVars, outVars, aborted, pc, t2Vars, t3Vars, t4Vars>>

\* vTaskDelayUntil(&xLastWakeTime, period): the delay ends one period after
\* the task's last release, whatever the time its workload took
CallDelayUntil(t) ==
    /\ Running(t)
    /\ pc[t] = "delay"
    /\ nDelay' = [nDelay EXCEPT ![t] = @ + 1]
    /\ delayArg' = [delayArg EXCEPT ![t] = DelayTicks(t)]
    /\ delayAt' = [delayAt EXCEPT ![t] = xTickCount]
    /\ pc' = [pc EXCEPT ![t] = AfterDelay(t)]
    /\ LET wake == relAt[t] + DelayTicks(t)
           es == [eState EXCEPT ![t] = IF wake > xTickCount THEN "blocked" ELSE "ready"]
           cur == HighestReady(es, uxPriority)
       IN  /\ xTimeToWake' = [xTimeToWake EXCEPT ![t] = wake]
           /\ eState' = es
           /\ pxCurrentTCB' = cur
           /\ firstRunAt' = MarkRun(cur, xTickCount)
    /\ UNCHANGED <<uxPriority, xSchedulerRunning, xTickCount, busyTicks,
                   relCount, relAt, prevRelAt, prevSpent>>
    /\ UNCHANGED <<regVars, outVars, aborted, t2Vars, t3Vars, t4Vars>>

\* Task t calls vTaskDelay with its own duration: it blocks until the tick
\* count is the count at the call plus the duration, and the
\* highest-priority ready task is switched in.
CallDelay(t) ==
    /\ Running(t)
    /\ pc[t] = "delay"
    /\ nDelay' = [nDelay EXCEPT ![t] = @ + 1]
    /\ delayArg' = [delayArg EXCEPT ![t] = DelayTicks(t)]
    /\ delayAt' = [delayAt EXCEPT ![t] = xTickCount]
    /\ pc' = [pc EXCEPT ![t] = AfterDelay(t)]
    /\ LET es == [eState EXCEPT ![t] = "blocked"]
           cur == HighestReady(es, uxPriority)
       IN  /\ xTimeToWake' = [xTimeToWake EXCEPT ![t] = xTickCount + DelayTicks(t)]
           /\ eState' = es
           /\ pxCurrentTCB' = cur
           /\ firstRunAt' = MarkRun(cur, xTickCount)
    /\ UNCHANGED <<uxPriority, xSchedulerRunning, xTickCount, busyTicks,
                   relCount, relAt, prevRelAt, prevSpent>>
    /\ UNCHANGED <<regVars, outVars, aborted, t2Vars, t3Vars, t4Vars>>


(* ------------------------- ipsa_sched (registrar) ---------------------- *)

CreateLabel == <<"create1", "create2", "create3", "create4", "create5">>

\* xQueue = xQueueCreate(mainQUEUE_LENGTH, sizeof(uint32_t)): a handle, or
\* NULL when the heap cannot hold the queue
Reg_QueueCreate ==
    /\ pcReg = "xQueueCreate"
    /\ \E h \in {NULL, "queue"} :
          /\ xQueue' = h
          /\ uxLength' = IF h # NULL THEN mainQUEUE_LENGTH ELSE 0
    /\ UNCHANGED uxMessagesWaiting
    /\ pcReg' = "if"
    /\ UNCHANGED <<failures, kernVars, delayVars, outVars, aborted, pc, t2Vars, t3Vars, t4Vars>>

Reg_IfQueue_NoTest ==
    /\ pcReg = "if"
    /\ pcReg' = CreateLabel[1]
    /\ UNCHANGED <<xQueue, queueVars, failures, kernVars, delayVars, outVars, aborted, pc, t2Vars, t3Vars, t4Vars>>

\* if (xQueue != NULL) { ... } for (;;) {}
Reg_IfQueue ==
    /\ pcReg = "if"
    /\ pcReg' = IF xQueue # NULL THEN CreateLabel[1] ELSE "idle"
    /\ UNCHANGED <<xQueue, queueVars, failures, kernVars, delayVars, outVars, aborted, pc, t2Vars, t3Vars, t4Vars>>

\* The i-th xTaskCreate call.  Its result is not looked at: whether the
\* kernel could allocate the task (ok) or not, the next statement follows.
Reg_TaskCreate(i, ok) ==
    /\ pcReg = CreateLabel[i]
    /\ LET t == TaskOrder[i]
       IN  IF ok
           THEN /\ eState' = [eState EXCEPT ![t] = "ready"]
                /\ uxPriority' = [uxPriority EXCEPT ![t] = CreatePriority(t)]
                /\ relCount' = [relCount EXCEPT ![t] = 1]
                /\ relAt' = [relAt EXCEPT ![t] = xTickCount]
                /\ UNCHANGED failures
           ELSE /\ failures < MaxFail
                /\ failures' = failures + 1
                /\ UNCHANGED <<eState, uxPriority, relCount, relAt>>
    /\ pcReg' = IF i < Len(CreateLabel) THEN CreateLabel[i + 1] ELSE "vTaskStartScheduler"
    /\ UNCHANGED <<xQueue, queueVars, xSchedulerRunning, xTickCount, xTimeToWake, pxCurrentTCB,
                   busyTicks, prevRelAt, prevSpent, firstRunAt>>
    /\ UNCHANGED <<delayVars, outVars, aborted, pc, t2Vars, t3Vars, t4Vars>>

Reg_StartScheduler_Returns(ok) ==
    /\ pcReg = "vTaskStartScheduler"
    /\ IF ok
       THEN LET cur == HighestReady(eState, uxPriority)
            IN  /\ xSchedulerRunning' = TRUE
                /\ pxCurrentTCB' = cur
                /\ firstRunAt' = MarkRun(cur, xTickCount)
                /\ pcReg' = "scheduler"
       ELSE /\ pcReg' = "return"
            /\ UNCHANGED <<xSchedulerRunning, pxCurrentTCB, firstRunAt>>
    /\ UNCHANGED <<xQueue, queueVars, failures, uxPriority, xTickCount, eState, xTimeToWake,
                   busyTicks, relCount, relAt, prevRelAt, prevSpent>>
    /\ UNCHANGED <<delayVars, outVars, aborted, pc, t2Vars, t3Vars, t4Vars>>

\* vTaskStartScheduler(): the kernel starts and switches the highest-priority
\* task in, never to return (ok); or it cannot create its idle or timer task
\* and returns, and ipsa_sched falls into for (;;) {}
Reg_StartScheduler(ok) ==
    /\ pcReg = "vTaskStartScheduler"
    /\ IF ok
       THEN LET cur == HighestReady(eState, uxPriority)
            IN  /\ xSchedulerRunning' = TRUE
                /\ pxCurrentTCB' = cur
                /\ firstRunAt' = MarkRun(cur, xTickCount)
                /\ pcReg' = "scheduler"
       ELSE /\ pcReg' = "idle"
            /\ UNCHANGED <<xSchedulerRunning, pxCurrentTCB, firstRunAt>>
    /\ UNCHANGED <<xQueue, queueVars, failures, uxPriority, xTickCount, eState, xTimeToWake,
                   busyTicks, relCount, relAt, prevRelAt, prevSpent>>
    /\ UNCHANGED <<delayVars, outVars, aborted, pc, t2Vars, t3Vars, t4Vars>>

(* ------------------------------- tasks -------------------------------- *)

\* printf by task t
Emit(t, line) ==
    /\ out' = [out EXCEPT ![t] = line]
    /\ emits' = [emits EXCEPT ![t] = @ + 1]
    /\ emitAt' = [emitAt EXCEPT ![t] = xTickCount]

T1_Print_Send ==
    /\ Running("TX1") /\ pc["TX1"] = "print"
    /\ Emit("TX1", "Working 1")
    /\ pc' = [pc EXCEPT !["TX1"] = "delay"]
    /\ uxMessagesWaiting' = IF uxMessagesWaiting < uxLength
                            THEN uxMessagesWaiting + 1 ELSE uxMessagesWaiting
    /\ UNCHANGED <<pcReg, xQueue, failures, uxLength>>
    /\ UNCHANGED <<kernVars, delayVars, aborted, t2Vars, t3Vars, t4Vars>>

\* vPeriodicTask1: printf("Working 1\n")
T1_Print ==
    /\ Running("TX1") /\ pc["TX1"] = "print"
    /\ Emit("TX1", "Working 1")
    /\ pc' = [pc EXCEPT !["TX1"] = "delay"]
    /\ UNCHANGED <<regVars, kernVars, delayVars, aborted, t2Vars, t3Vars, t4Vars>>

\* vPeriodicTask2: float fahrenheit = 100.0f
T2_Init ==
    /\ Running("TX2") /\ pc["TX2"] = "init"
    /\ fahrenheit' = FixedPoint(100)
    /\ pc' = [pc EXCEPT !["TX2"] = "calc"]
    /\ UNCHANGED <<regVars, kernVars, delayVars, outVars, aborted, celsius, t3Vars, t4Vars>>

\* float celsius = (fahrenheit - 32.0f) * 5.0f / 9.0f, in thousandths
T2_Calc ==
    /\ Running("TX2") /\ pc["TX2"] = "calc"
    /\ celsius' = ((fahrenheit - FixedPoint(32)) * 5) \div 9
    /\ pc' = [pc EXCEPT !["TX2"] = "print"]
    /\ UNCHANGED <<regVars, kernVars, delayVars, outVars, aborted, fahrenheit, t3Vars, t4Vars>>

T2_Print ==
    /\ Running("TX2") /\ pc["TX2"] = "print"
    /\ Emit("TX2", "Fahrenheit, Celsius")
    /\ pc' = [pc EXCEPT !["TX2"] = "delay"]
    /\ UNCHANGED <<regVars, kernVars, delayVars, aborted, t2Vars, t3Vars, t4Vars>>

\* the literals 9876543210 and 1234567890, as longs
Num1Literal == FromDecimal(<<9,8,7,6,5,4,3,2,1,0>>, 8)
Num2Literal == FromDecimal(<<1,2,3,4,5,6,7,8,9,0>>, 8)

\* vPeriodicTask3: long int num1 = 9876543210, num2 = 1234567890, result = 0
T3_Init ==
    /\ Running("TX3") /\ pc["TX3"] = "init"
    /\ num1' = Num1Literal
    /\ num2' = Num2Literal
    /\ result' = Zeros(8)
    /\ pc' = [pc EXCEPT !["TX3"] = "mul"]
    /\ UNCHANGED <<regVars, kernVars, delayVars, outVars, aborted, t2Vars, t4Vars>>

T3_Mul_InPlace ==
    /\ Running("TX3") /\ pc["TX3"] = "mul"
    /\ \E o \in MulOutcomes(num1, num2) :
          IF o.trap
          THEN aborted' = TRUE /\ UNCHANGED <<num1, result, pc>>
          ELSE /\ num1' = o.value
               /\ result' = o.value
               /\ pc' = [pc EXCEPT !["TX3"] = "print"]
               /\ UNCHANGED aborted
    /\ UNCHANGED <<regVars, kernVars, delayVars, outVars, num2, t2Vars, t4Vars>>

\* result = num1 * num2; a trap kills the process
T3_Mul ==
    /\ Running("TX3") /\ pc["TX3"] = "mul"
    /\ \E o \in MulOutcomes(num1, num2) :
          IF o.trap
          THEN aborted' = TRUE /\ UNCHANGED <<result, pc>>
          ELSE /\ result' = o.value
               /\ pc' = [pc EXCEPT !["TX3"] = "print"]
               /\ UNCHANGED aborted
    /\ UNCHANGED <<regVars, kernVars, delayVars, outVars, num1, num2, t2Vars, t4Vars>>

\* printf("Result: %ld\n", result)
T3_Print ==
    /\ Running("TX3") /\ pc["TX3"] = "print"
    /\ Emit("TX3", "Result")
    /\ pc' = [pc EXCEPT !["TX3"] = "delay"]
    /\ UNCHANGED <<regVars, kernVars, delayVars, aborted, t2Vars, t3Vars, t4Vars>>

\* vPeriodicTask4: found = 0; low = 0; high = 49 (the array's last index),
\* once, before for (;;)
T4_Init ==
    /\ Running("TX4") /\ pc["TX4"] = "init"
    /\ found' = 0 /\ low' = 0 /\ high' = Len(list) - 1
    /\ pc' = [pc EXCEPT !["TX4"] = "while"]
    /\ UNCHANGED <<regVars, kernVars, delayVars, outVars, aborted, t2Vars, t3Vars,
                   list, element_to_find, mid, probes>>

T4_While_Strict ==
    /\ Running("TX4") /\ pc["TX4"] = "while"
    /\ pc' = [pc EXCEPT !["TX4"] = IF low < high THEN "probe" ELSE "report"]
    /\ UNCHANGED <<regVars, kernVars, delayVars, outVars, aborted, t2Vars, t3Vars, t4Vars>>

\* while (low <= high)
T4_While ==
    /\ Running("TX4") /\ pc["TX4"] = "while"
    /\ pc' = [pc EXCEPT !["TX4"] = IF low <= high THEN "probe" ELSE "report"]
    /\ UNCHANGED <<regVars, kernVars, delayVars, outVars, aborted, t2Vars, t3Vars, t4Vars>>

T4_Probe_NoEqual ==
    /\ Running("TX4") /\ pc["TX4"] = "probe"
    /\ LET m == (low + high) \div 2
       IN  /\ mid' = m
           /\ probes' = probes + 1
           /\ IF list[m + 1] = element_to_find
              THEN /\ pc' = [pc EXCEPT !["TX4"] = "while"]
                   /\ high' = m - 1
                   /\ UNCHANGED <<low, found>>
              ELSE IF list[m + 1] < element_to_find
              THEN /\ low' = m + 1
                   /\ pc' = [pc EXCEPT !["TX4"] = "while"]
                   /\ UNCHANGED <<high, found>>
              ELSE /\ high' = m - 1
                   /\ pc' = [pc EXCEPT !["TX4"] = "while"]
                   /\ UNCHANGED <<low, found>>
    /\ UNCHANGED <<regVars, kernVars, delayVars, outVars, aborted, t2Vars, t3Vars,
                   list, element_to_find>>

T4_Probe_LowMid ==
    /\ Running("TX4") /\ pc["TX4"] = "probe"
    /\ LET m == (low + high) \div 2
       IN  /\ mid' = m
           /\ probes' = probes + 1
           /\ IF list[m + 1] = element_to_find
              THEN /\ found' = 1
                   /\ pc' = [pc EXCEPT !["TX4"] = "report"]
                   /\ UNCHANGED <<low, high>>
              ELSE IF list[m + 1] < element_to_find
              THEN /\ low' = m
                   /\ pc' = [pc EXCEPT !["TX4"] = "while"]
                   /\ UNCHANGED <<high, found>>
              ELSE /\ high' = m - 1
                   /\ pc' = [pc EXCEPT !["TX4"] = "while"]
                   /\ UNCHANGED <<low, found>>
    /\ UNCHANGED <<regVars, kernVars, delayVars, outVars, aborted, t2Vars, t3Vars,
                   list, element_to_find>>

\* mid = (low + high) / 2 and the comparison of list[mid] (C indexes from 0)
T4_Probe ==
    /\ Running("TX4") /\ pc["TX4"] = "probe"
    /\ LET m == (low + high) \div 2
       IN  /\ mid' = m
           /\ probes' = probes + 1
           /\ IF list[m + 1] = element_to_find
              THEN /\ found' = 1
                   /\ pc' = [pc EXCEPT !["TX4"] = "report"]
                   /\ UNCHANGED <<low, high>>
              ELSE IF list[m + 1] < element_to_find
              THEN /\ low' = m + 1
                   /\ pc' = [pc EXCEPT !["TX4"] = "while"]
                   /\ UNCHANGED <<high, found>>
              ELSE /\ high' = m - 1
                   /\ pc' = [pc EXCEPT !["TX4"] = "while"]
                   /\ UNCHANGED <<low, found>>
    /\ UNCHANGED <<regVars, kernVars, delayVars, outVars, aborted, t2Vars, t3Vars,
                   list, element_to_find>>

\* if (found) printf("Element found\n"); else printf("Element not found\n")
T4_Report ==
    /\ Running("TX4") /\ pc["TX4"] = "report"
    /\ Emit("TX4", IF found # 0 THEN "Element found" ELSE "Element not found")
    /\ pc' = [pc EXCEPT !["TX4"] = "delay"]
    /\ probes' = 0
    /\ UNCHANGED <<regVars, kernVars, delayVars, aborted, t2Vars, t3Vars,
                   list, element_to_find, low, high, mid, found>>

\* aperiodicTask1: printf("Aperiodic task 1 finished\n")
AP_Print ==
    /\ Running("Aperiodic") /\ pc["Aperiodic"] = "print"
    /\ Emit("Aperiodic", "Aperiodic task 1 finished")
    /\ pc' = [pc EXCEPT !["Aperiodic"] = "delay"]
    /\ UNCHANGED <<regVars, kernVars, delayVars, aborted, t2Vars, t3Vars, t4Vars>>

(* --------------------------- specifications --------------------------- *)

Next ==
    \/ Reg_QueueCreate
    \/ Reg_IfQueue
    \/ \E i \in 1..Len(CreateLabel), ok \in BOOLEAN : Reg_TaskCreate(i, ok)
    \/ \E ok \in BOOLEAN : Reg_StartScheduler(ok)
    \/ Tick(MaxTicks, MaxBusyTicks)
    \/ \E t \in Tasks : CallDelay(t)
    \/ T1_Print
    \/ T2_Init \/ T2_Calc \/ T2_Print
    \/ T3_Init \/ T3_Mul \/ T3_Print
    \/ T4_Init \/ T4_While \/ T4_Probe \/ T4_Report
    \/ AP_Print

Spec == Init /\ [][Next]_vars

\* The state in which vTaskStartScheduler leaves the system when the queue
\* and the tasks of set C were created: every task of C ready, none has run,
\* the highest-priority one switched in.
StartedWith(lst, target, C) ==
    LET es == [t \in Tasks |-> IF t \in C THEN "ready" ELSE "none"]
        prio == [t \in Tasks |-> IF t \in C THEN CreatePriority(t) ELSE 0]
    IN  /\ pcReg = "scheduler"
        /\ xQueue = "queue"
        /\ uxLength = mainQUEUE_LENGTH /\ uxMessagesWaiting = 0
        /\ failures = Cardinality(Tasks \ C)
        /\ uxPriority = prio
        /\ xSchedulerRunning = TRUE
        /\ xTickCount = 0
        /\ eState = es
        /\ xTimeToWake = [t \in Tasks |-> 0]
        /\ pxCurrentTCB = HighestReady(es, prio)
        /\ busyTicks = 0
        /\ aborted = FALSE
        /\ pc = [t \in Tasks |-> Entry(t)]
        /\ fahrenheit = 0 /\ celsius = 0
        /\ num1 = Zeros(8) /\ num2 = Zeros(8) /\ result = Zeros(8)
        /\ list = lst /\ element_to_find = target
        /\ low = 0 /\ high = 0 /\ mid = 0 /\ found = 0
        /\ probes = 0
        /\ out = [t \in Tasks |-> ""]
        /\ emits = [t \in Tasks |-> 0]
        /\ emitAt = [t \in Tasks |-> 0]
        /\ nDelay = [t \in Tasks |-> 0]
        /\ delayArg = [t \in Tasks |-> 0]
        /\ delayAt = [t \in Tasks |-> 0]
        /\ relCount = [t \in Tasks |-> IF t \in C THEN 1 ELSE 0]
        /\ relAt = [t \in Tasks |-> 0]
        /\ prevRelAt = [t \in Tasks |-> 0]
        /\ prevSpent = [t \in Tasks |-> 0]
        /\ firstRunAt = [t \in Tasks |-> IF t = HighestReady(es, prio) THEN 0 ELSE -1]

\* the queue and all five tasks created, the program's own array and target
Started == StartedWith([i \in 1..50 |-> i], 25, Tasks)

\* the started system: the kernel and the five tasks, with room for a task
\* to execute for several ticks
NextStarted ==
    \/ Tick(MaxPreemptTicks, MaxPreemptBusy)
    \/ \E t \in Tasks : CallDelay(t)
    \/ T1_Print
    \/ T2_Init \/ T2_Calc \/ T2_Print
    \/ T3_Init \/ T3_Mul \/ T3_Print
    \/ T4_Init \/ T4_While \/ T4_Probe \/ T4_Report
    \/ AP_Print

SpecStarted == Started /\ [][NextStarted]_vars

\* the tick interrupt when only task slow executes for whole ticks
TickDuring(slow, tickLimit, busyLimit) ==
    /\ pxCurrentTCB \in {IDLE, slow}
    /\ Tick(tickLimit, busyLimit)

\* the started system over its first ticks, with room for the workload of
\* vPeriodicTask4 to execute for longer than the aperiodic task's delay
NextOverrun ==
    \/ TickDuring("TX4", MaxOverrunTicks, MaxOverrunBusy)
    \/ \E t \in Tasks : CallDelay(t)
    \/ T1_Print
    \/ T2_Init \/ T2_Calc \/ T2_Print
    \/ T3_Init \/ T3_Mul \/ T3_Print
    \/ T4_Init \/ T4_While \/ T4_Probe \/ T4_Report
    \/ AP_Print

SpecOverrun == Started /\ [][NextOverrun]_vars

(* ------------------- the search of vPeriodicTask4, generalised --------- *)

\* the strictly ascending arrays of 1..MaxLen elements drawn from 1..MaxVal
SortedLists ==
    {sq \in UNION {[1..n -> 1..MaxVal] : n \in 1..MaxLen} :
        \A i \in 1..(Len(sq) - 1) : sq[i] < sq[i + 1]}

Targets == 0..(MaxVal + 1)

\* vPeriodicTask4 alone on the started kernel, over any such array and target
SearchInit ==
    \E lst \in SortedLists, target \in Targets : StartedWith(lst, target, {"TX4"})

NextSearch ==
    \/ T4_Init \/ T4_While \/ T4_Probe \/ T4_Report
    \/ CallDelay("TX4")
    \/ Tick(MaxTicks, 0)

SpecSearch == SearchInit /\ [][NextSearch]_vars

\* vPeriodicTask4 alone on the started kernel, over the program's array
\* 1..50 and any target, in the array or not
Targets50 == 0..51

SearchInit50 ==
    \E target \in Targets50 : StartedWith([i \in 1..50 |-> i], target, {"TX4"})

SpecSearch50 == SearchInit50 /\ [][NextSearch]_vars

(* ------------------------------- claims ------------------------------- *)

\* the priority order the claims state: TX1 < TX2 < TX3 < TX4 < Aperiodic
ClaimRank(t) ==
    CASE t = "TX1" -> 1
      [] t = "TX2" -> 2
      [] t = "TX3" -> 3
      [] t = "TX4" -> 4
      [] t = "Aperiodic" -> 5

\* t is eligible and no eligible task ranks above it
TopRanked(t) ==
    /\ t \in Tasks
    /\ eState[t] = "ready"
    /\ \A u \in Tasks : eState[u] = "ready" => ClaimRank(u) <= ClaimRank(t)

\* C1: once the scheduler is started, the executing task is the eligible
\* task of highest rank (the idle task only when no task is eligible); only
\* that task takes a step; and when a tick ends the delay of a task ranked
\* above the executing one, the executing one is switched out in that tick.
C1_HighestPriorityRuns ==
    /\ [](xSchedulerRunning /\ ~aborted =>
            IF \A t \in Tasks : eState[t] # "ready"
            THEN pxCurrentTCB = IDLE
            ELSE TopRanked(pxCurrentTCB))
    /\ [][\A t \in Tasks :
            (pc'[t] # pc[t] \/ emits'[t] # emits[t] \/ nDelay'[t] # nDelay[t])
                => TopRanked(t)]_vars
    /\ [][\A u \in Tasks :
            (/\ eState[u] = "blocked" /\ eState'[u] = "ready"
             /\ pxCurrentTCB \in Tasks
             /\ ClaimRank(pxCurrentTCB) < ClaimRank(u))
                => pxCurrentTCB' # pxCurrentTCB /\ TopRanked(pxCurrentTCB)']_vars

\* C1 witness: TX1 has printed in this iteration and not yet called
\* vTaskDelay, and a task woken after that print is executing in its place
C1_Witness ==
    /\ pc["TX1"] = "delay" /\ eState["TX1"] = "ready"
    /\ pxCurrentTCB \in Tasks \ {"TX1"}
    /\ relCount[pxCurrentTCB] >= 2
    /\ relAt[pxCurrentTCB] > emitAt["TX1"]
    /\ relAt[pxCurrentTCB] = xTickCount

\* C2: after xQueueCreate returned NULL no task exists, none has run, the
\* scheduler is not started, and ipsa_sched is at its test or in for (;;) {}
C2_QueueFailureCreatesNothing ==
    (pcReg # "xQueueCreate" /\ xQueue = NULL) =>
        /\ created = {}
        /\ ~xSchedulerRunning
        /\ pcReg \in {"if", "idle"}
        /\ \A t \in Tasks : emits[t] = 0 /\ firstRunAt[t] = -1 /\ pc[t] = Entry(t)

C2_Witness == xQueue = NULL /\ pcReg = "idle" /\ created = {}

\* C3: a failed xTaskCreate is fatal: the scheduler never runs with fewer
\* than five tasks
C3_TaskCreateFailureIsFatal ==
    /\ failures > 0 => ~xSchedulerRunning
    /\ xSchedulerRunning => created = Tasks

\* C4: once computed, result is exactly 12193263111263526900 and the
\* multiplication did not overflow the range of a 64-bit signed integer
C4_ProductExact ==
    (pc["TX3"] = "print" \/ emits["TX3"] >= 1 \/ aborted) =>
        /\ ~aborted
        /\ ~MulOverflows(num1, num2)
        /\ Int64Value(result) =
              [neg |-> FALSE,
               mag |-> FromDecimal(<<1,2,1,9,3,2,6,3,1,1,1,2,6,3,5,2,6,9,0,0>>, 8)]

\* C5: every search of vPeriodicTask4 ends with found = 1: the task reports
\* with found set and never prints "Element not found"
C5_AlwaysFound ==
    /\ out["TX4"] \in {"", "Element found"}
    /\ pc["TX4"] \in {"report", "delay"} => found = 1

C5_Witness == emits["TX4"] >= 2 /\ out["TX4"] = "Element found" /\ pc["TX4"] = "delay"

\* C6: for any strictly ascending array and any target, the first run of the
\* search loop ends with found = 1 exactly when the target is in the array,
\* and with found = 0 and low > high when it is not
C6_SearchCorrect ==
    (pc["TX4"] = "report" /\ emits["TX4"] = 0) =>
        LET present == \E i \in 1..Len(list) : list[i] = element_to_find
        IN  /\ found = 1 <=> present
            /\ ~present => found = 0 /\ low > high

C6_Witness ==
    /\ pc["TX4"] = "report" /\ emits["TX4"] = 0
    /\ Len(list) = MaxLen
    /\ found = 0 /\ low > high
    /\ list[1] < element_to_find /\ element_to_find < list[Len(list)]

\* C7: two consecutive releases of a periodic task are apart by at least its
\* period plus the ticks the earlier iteration spent before its delay call
C7_ReleaseSpacing ==
    \A t \in Periodic :
        relCount[t] >= 2 =>
            /\ prevSpent[t] >= 0
            /\ relAt[t] - prevRelAt[t] >= DelayTicks(t) + prevSpent[t]
            /\ relAt[t] - prevRelAt[t] >= DelayTicks(t)

\* C7 witness: a task woken twice whose earlier iteration took time
C7_Witness == \E t \in Periodic : relCount[t] >= 3 /\ prevSpent[t] > 0

\* C8: the priorities of the existing tasks are strictly ordered
\* TX1 < TX2 < TX3 < TX4 < Aperiodic, and a task's priority never changes
C8_PrioritiesDistinctAndFixed ==
    /\ [](\A t, u \in created :
            ClaimRank(t) < ClaimRank(u) => uxPriority[t] < uxPriority[u])
    /\ [][\A t \in created : uxPriority'[t] = uxPriority[t]]_vars

C8_Witness == created = Tasks /\ xTickCount > 100 /\ \A t \in Tasks : emits[t] >= 1

\* the delay durations the claims state, in ticks
ClaimDelay(t) ==
    CASE t = "TX1" -> 166
      [] t = "TX2" -> 170
      [] t = "TX3" -> 186
      [] t = "TX4" -> 166
      [] t = "Aperiodic" -> 50

Fairness ==
    /\ WF_vars(Reg_QueueCreate)
    /\ WF_vars(Reg_IfQueue)
    /\ WF_vars(\E i \in 1..Len(CreateLabel), ok \in BOOLEAN : Reg_TaskCreate(i, ok))
    /\ WF_vars(\E ok \in BOOLEAN : Reg_StartScheduler(ok))
    /\ WF_vars(Tick(MaxTicks, MaxBusyTicks))
    /\ WF_vars(\E t \in Tasks : CallDelay(t))
    /\ WF_vars(T1_Print)
    /\ WF_vars(T2_Init \/ T2_Calc \/ T2_Print)
    /\ WF_vars(T3_Init \/ T3_Mul \/ T3_Print)
    /\ WF_vars(T4_Init \/ T4_While \/ T4_Probe \/ T4_Report)
    /\ WF_vars(AP_Print)

SpecFair == Spec /\ Fairness

C11_UnlessTrapped ==
    (xSchedulerRunning /\ created = Tasks) ~> (aborted \/ \A t \in Tasks : emits[t] >= 2)

\* C12: one suspension point per loop iteration.  A periodic task prints
\* first and then prints and calls vTaskDelay in turn; the aperiodic task
\* calls vTaskDelay and prints in turn; and a task becomes blocked only in
\* a step in which it executes and makes its own vTaskDelay call
C12_OneDelayPerEmission ==
    /\ [](\A t \in Periodic : emits[t] - nDelay[t] \in {0, 1})
    /\ [](nDelay["Aperiodic"] - emits["Aperiodic"] \in {0, 1})
    /\ [][\A t \in Tasks :
            (eState'[t] = "blocked" /\ eState[t] # "blocked") =>
                /\ pxCurrentTCB = t
                /\ pc[t] = "delay"
                /\ nDelay'[t] = nDelay[t] + 1]_vars

C12_Witness ==
    /\ \A t \in Tasks : emits[t] >= 2 /\ nDelay[t] >= 2
    /\ \E t \in Periodic : eState[t] = "blocked"
    /\ \E t \in Periodic : emits[t] = nDelay[t] + 1

\* C13: the search loop of vPeriodicTask4 terminates: a comparison that
\* does not hit makes high - low strictly smaller, high - low is never
\* below -1 where the loop condition is tested, and no outer iteration makes
\* more than 7 comparisons
C13_SearchTerminates ==
    /\ [](probes <= 7)
    /\ [](pc["TX4"] = "while" => high - low >= -1)
    /\ [][(probes' = probes + 1 /\ pc'["TX4"] = "while") =>
              high' - low' < high - low]_vars

C13_Witness == probes = 6 /\ pc["TX4"] = "report" /\ found = 0

RegLabels ==
    {"xQueueCreate", "if", "vTaskStartScheduler", "scheduler", "idle"}
        \cup {CreateLabel[i] : i \in 1..Len(CreateLabel)}

\* C15: ipsa_sched never returns.  Control is always at one of its
\* statements; when the queue was not created, and when vTaskStartScheduler
\* returned, its next step is into the final idle loop; and in the idle loop
\* it stays, no task is created and the scheduler is not started
C15_NeverReturns ==
    /\ [](pcReg \in RegLabels)
    /\ [](pcReg = "idle" => ~xSchedulerRunning)
    /\ [][(pcReg = "if" /\ xQueue = NULL /\ pcReg' # pcReg) => pcReg' = "idle"]_vars
    /\ [][(pcReg = "vTaskStartScheduler" /\ pcReg' # pcReg /\ ~xSchedulerRunning')
             => pcReg' = "idle"]_vars
    /\ [][pcReg = "idle" =>
             /\ pcReg' = "idle"
             /\ eState' = eState
             /\ xSchedulerRunning' = xSchedulerRunning]_vars

C15_Witness ==
    pcReg = "idle" /\ xQueue # NULL /\ created = Tasks /\ ~xSchedulerRunning

\* C16: with the queue created, the registrar creates exactly the five
\* tasks, TX1, TX2, TX3, TX4, Aperiodic in this order of ascending priority,
\* the scheduler is started only when all five exist, and no task has
\* executed anything while the scheduler is not started
C16_FiveTasksThenScheduler ==
    /\ \A i \in 1..Len(CreateLabel) :
          pcReg = CreateLabel[i] => created = {TaskOrder[j] : j \in 1..(i - 1)}
    /\ \A i \in 1..(Len(TaskOrder) - 1) :
          (TaskOrder[i] \in created /\ TaskOrder[i + 1] \in created) =>
              uxPriority[TaskOrder[i]] < uxPriority[TaskOrder[i + 1]]
    /\ pcReg \in {"vTaskStartScheduler", "scheduler"} => created = Tasks
    /\ xSchedulerRunning => pcReg = "scheduler"
    /\ ~xSchedulerRunning =>
          \A t \in Tasks : /\ firstRunAt[t] = -1 /\ pc[t] = Entry(t)
                           /\ emits[t] = 0 /\ nDelay[t] = 0

\* what does hold of the program as it is: the five creation calls are made
\* in this order, each creating its task unless xTaskCreate fails, the
\* scheduler is started only after the fifth call, and no task has executed
\* anything while the scheduler is not started
C16_FiveCallsThenScheduler ==
    /\ \A i \in 1..Len(CreateLabel) :
          pcReg = CreateLabel[i] =>
              /\ created \subseteq {TaskOrder[j] : j \in 1..(i - 1)}
              /\ Cardinality(created) + failures = i - 1
    /\ \A i \in 1..(Len(TaskOrder) - 1) :
          (TaskOrder[i] \in created /\ TaskOrder[i + 1] \in created) =>
              uxPriority[TaskOrder[i]] < uxPriority[TaskOrder[i + 1]]
    /\ pcReg \in {"vTaskStartScheduler", "scheduler"} =>
          Cardinality(created) + failures = Len(TaskOrder)
    /\ xSchedulerRunning => pcReg = "scheduler"
    /\ ~xSchedulerRunning =>
          \A t \in Tasks : /\ firstRunAt[t] = -1 /\ pc[t] = Entry(t)
                           /\ emits[t] = 0 /\ nDelay[t] = 0

\* C17: the workload data is immutable and unshared.  No step changes the
\* array or the target of vPeriodicTask4; once a task has initialised them,
\* fahrenheit is 100.0f and num1 and num2 are their literals and no step
\* changes them; and the locals of a task change only in a step of that task
C17_WorkloadDataImmutable ==
    /\ [](list = [i \in 1..50 |-> i] /\ element_to_find = 25)
    /\ [](pc["TX2"] # "init" => fahrenheit = FixedPoint(100))
    /\ [](pc["TX3"] # "init" => num1 = Num1Literal /\ num2 = Num2Literal)
    /\ [][list' = list /\ element_to_find' = element_to_find]_vars
    /\ [][pc["TX2"] # "init" => fahrenheit' = fahrenheit]_vars
    /\ [][pc["TX3"] # "init" => num1' = num1 /\ num2' = num2]_vars
    /\ [][t2Vars' # t2Vars => pxCurrentTCB = "TX2"]_vars
    /\ [][t3Vars' # t3Vars => pxCurrentTCB = "TX3"]_vars
    /\ [][t4Vars' # t4Vars => pxCurrentTCB = "TX4"]_vars

C17_Witness ==
    /\ \A t \in Periodic : emits[t] >= 2
    /\ result # Zeros(8) /\ celsius # 0 /\ found = 1
    /\ num1 = Num1Literal /\ num2 = Num2Literal /\ fahrenheit = FixedPoint(100)

\* C18: vPeriodicTask4 initialises low, high and found once and never again:
\* after the initialisation found never goes from 1 back to 0, low never
\* decreases and high never increases, and each report after the first is
\* the same line as the report before it
C18_SearchStateCarriesOver ==
    /\ [][pc'["TX4"] = "init" => pc["TX4"] = "init"]_vars
    /\ [][pc["TX4"] # "init" =>
             /\ found = 1 => found' = 1
             /\ low' >= low
             /\ high' <= high]_vars
    /\ [][(emits'["TX4"] # emits["TX4"] /\ emits["TX4"] >= 1) =>
             out'["TX4"] = out["TX4"]]_vars

C18_Witness ==
    /\ emits["TX4"] >= 3
    /\ out["TX4"] = "Element not found"
    /\ low > high /\ found = 0

\* C19: once the scheduler runs, the first line printed is that of
\* vPeriodicTask4, and a periodic task prints its first line only when every
\* periodic task of higher priority has printed its own
C19_FirstEmissionsByPriority ==
    /\ (\E t \in Tasks : emits[t] > 0) => emits["TX4"] > 0
    /\ \A t, u \in Periodic :
          (CreatePriority(u) > CreatePriority(t) /\ emits[t] > 0) => emits[u] > 0

\* what does hold of the program as it is: the same, when all five tasks
\* were created
C19_WhenAllCreated ==
    created = Tasks => C19_FirstEmissionsByPriority

\* C20: the aperiodic task never waits for the processor: while the
\* scheduler runs, whenever it is ready (created or woken from its delay,
\* and not yet in its next delay) it is the task that executes, so no other
\* task executes in its place and none preempts it
C20_AperiodicNeverWaits ==
    (xSchedulerRunning /\ eState["Aperiodic"] = "ready") => pxCurrentTCB = "Aperiodic"

\* the aperiodic task has woken while a periodic task was in the middle of
\* its workload, and executes in its place
C20_Witness ==
    /\ pxCurrentTCB = "Aperiodic" /\ relCount["Aperiodic"] >= 2
    /\ pc["Aperiodic"] = "print"
    /\ \E t \in Periodic :
          eState[t] = "ready" /\ firstRunAt[t] >= 0 /\ emits[t] = nDelay[t]
             /\ pc[t] # AfterDelay(t) /\ pc[t] # Entry(t)

=============================================================================
